---- MODULE Spec2Model ----
(***************************************************************************)
(* A state-machine model of tariff_market_analysis.py: the horizon         *)
(* derivation loop, calculate_rsi, fetch_market_data, analyze_event,       *)
(* create_empty_result and the main run that collects one row per event    *)
(* and writes the collection to the SQLite table and the CSV file.         *)
(*                                                                         *)
(* Representation.                                                         *)
(*  - A "%Y-%m-%d" date string is the tuple <<year, month, day>>;          *)
(*    datetime.strptime turns it into a proleptic Gregorian ordinal (an    *)
(*    integer number of days, date.toordinal()), and strftime turns an     *)
(*    ordinal back into the tuple.  A datetime is its ordinal.             *)
(*  - A float is a record [kind, num, den]: kind "num" is the exact        *)
(*    rational num/den in lowest terms, "inf", "-inf" and "nan" are the    *)
(*    IEEE specials numpy produces, and kind "None" is Python's None.      *)
(*    The sign of a zero is not tracked.                                   *)
(*  - A DataFrame is [columns, index, rows]: the column names, the dates   *)
(*    of the bars and one tuple of numbers per bar.                        *)
(***************************************************************************)
EXTENDS Integers, Sequences, FiniteSets, TLC

VARIABLES
    events,      \* the module-level list of event dicts
    now,         \* the day datetime.now() falls on (an ordinal)
    pc,          \* position of the program
    i,           \* index of the event the list comprehension is at
    start,       \* fetch_market_data: its `start` argument / local
    end,         \* fetch_market_data: its `end` argument / local
    attempts,    \* fetch_market_data: its `attempts` argument
    attempt,     \* fetch_market_data: the loop variable
    outcomes,    \* per attempt made, what each provider call did
    sleeps,      \* the time.sleep(wait_time) calls of the current fetch
    df,          \* the value fetch_market_data returned
    locals,      \* analyze_event: closest_start, pre_tariff_price/volume
    trace,       \* per evaluated event: the branch taken and the calls made
    sp500_data,  \* the rows collected by the list comprehension
    sql,         \* table "sp500" of tariff_analysis.db
    csv,         \* sp500_analysis.csv
    data,        \* calculate_rsi: its `data` argument
    periods,     \* calculate_rsi: its `periods` argument
    rsi_out      \* calculate_rsi: the value returned

vars == <<events, now, pc, i, start, end, attempts, attempt, outcomes, sleeps,
          df, locals, trace, sp500_data, sql, csv, data, periods, rsi_out>>

(***************************************************************************)
(* Calendar: datetime.strptime(..., "%Y-%m-%d"), + timedelta(days=n),      *)
(* .strftime("%Y-%m-%d"), as CPython's datetime computes them.             *)
(***************************************************************************)
is_leap(year) == year % 4 = 0 /\ (year % 100 # 0 \/ year % 400 = 0)

days_before_year(year) ==
    LET y == year - 1 IN y * 365 + (y \div 4) - (y \div 100) + (y \div 400)

DAYS_IN_MONTH == <<31, 28, 31, 30, 31, 30, 31, 31, 30, 31, 30, 31>>

DAYS_BEFORE_MONTH == <<0, 31, 59, 90, 120, 151, 181, 212, 243, 273, 304, 334>>

days_before_month(year, month) ==
    DAYS_BEFORE_MONTH[month] + (IF month > 2 /\ is_leap(year) THEN 1 ELSE 0)

\* datetime.strptime(s, "%Y-%m-%d") as an ordinal
Strptime(s) == days_before_year(s[1]) + days_before_month(s[1], s[2]) + s[3]

\* the date of an ordinal (CPython _ord2ymd), i.e. strftime("%Y-%m-%d")
Strftime(ordinal) ==
    LET n0   == ordinal - 1
        n400 == n0 \div 146097
        r400 == n0 % 146097
        n100 == r400 \div 36524
        r100 == r400 % 36524
        n4   == r100 \div 1461
        r4   == r100 % 1461
        n1   == r4 \div 365
        n    == r4 % 365
        year == n400 * 400 + 1 + n100 * 100 + n4 * 4 + n1
    IN  IF n1 = 4 \/ n100 = 4 THEN <<year - 1, 12, 31>>
        ELSE LET leapyear == n1 = 3 /\ (n4 # 24 \/ n100 = 3)
                 m0  == (n + 50) \div 32
                 pre == DAYS_BEFORE_MONTH[m0]
                          + (IF m0 > 2 /\ leapyear THEN 1 ELSE 0)
                 month == IF pre > n THEN m0 - 1 ELSE m0
                 preceding ==
                     IF pre > n
                     THEN pre - (DAYS_IN_MONTH[m0 - 1]
                                 + (IF m0 - 1 = 2 /\ leapyear THEN 1 ELSE 0))
                     ELSE pre
             IN  <<year, month, n - preceding + 1>>

(***************************************************************************)
(* Floating-point values.                                                  *)
(***************************************************************************)
RECURSIVE Gcd(_, _)
Gcd(a, b) == IF b = 0 THEN a ELSE Gcd(b, a % b)

Abs(x) == IF x < 0 THEN -x ELSE x

None   == [kind |-> "None", num |-> 0, den |-> 1]
NaN    == [kind |-> "nan",  num |-> 0, den |-> 1]
PosInf == [kind |-> "inf",  num |-> 0, den |-> 1]
NegInf == [kind |-> "-inf", num |-> 0, den |-> 1]

\* the rational n/d (d # 0) in lowest terms with a positive denominator
Num(n, d) ==
    LET g == Gcd(Abs(n), Abs(d))
        s == IF d < 0 THEN -1 ELSE 1
    IN  [kind |-> "num", num |-> (s * n) \div g, den |-> (s * d) \div g]

Float(n) == Num(n, 1)

IsNum(x) == x.kind = "num"
Sign(x) == CASE x.kind = "inf"  -> 1
             [] x.kind = "-inf" -> -1
             [] x.kind = "num"  -> (IF x.num > 0 THEN 1 ELSE IF x.num < 0 THEN -1 ELSE 0)
             [] OTHER -> 0
Signed(s) == IF s < 0 THEN NegInf ELSE PosInf

FNeg(x) == CASE x.kind = "num"  -> Num(-x.num, x.den)
             [] x.kind = "inf"  -> NegInf
             [] x.kind = "-inf" -> PosInf
             [] OTHER -> NaN

FAdd(x, y) ==
    CASE x.kind = "nan" \/ y.kind = "nan" -> NaN
      [] IsNum(x) /\ IsNum(y) -> Num(x.num * y.den + y.num * x.den, x.den * y.den)
      [] IsNum(x) -> y
      [] IsNum(y) -> x
      [] OTHER -> IF x.kind = y.kind THEN x ELSE NaN

FSub(x, y) == FAdd(x, FNeg(y))

FMul(x, y) ==
    CASE x.kind = "nan" \/ y.kind = "nan" -> NaN
      [] IsNum(x) /\ IsNum(y) -> Num(x.num * y.num, x.den * y.den)
      [] OTHER -> IF Sign(x) = 0 \/ Sign(y) = 0 THEN NaN
                  ELSE Signed(Sign(x) * Sign(y))

\* numpy float64 true division: a zero divisor gives inf or nan, no exception
FDiv(x, y) ==
    CASE x.kind = "nan" \/ y.kind = "nan" -> NaN
      [] IsNum(x) /\ IsNum(y) ->
            IF y.num # 0 THEN Num(x.num * y.den, x.den * y.num)
            ELSE IF x.num = 0 THEN NaN ELSE Signed(Sign(x))
      [] IsNum(x) -> Float(0)
      [] IsNum(y) -> Signed(Sign(x) * (IF Sign(y) < 0 THEN -1 ELSE 1))
      [] OTHER -> NaN

FGt(x, y) == IF x.kind = "nan" \/ y.kind = "nan" THEN FALSE
             ELSE Sign(FSub(x, y)) > 0
FLt(x, y) == FGt(y, x)

(***************************************************************************)
(* calculate_rsi (lines 58-67).  A pandas Series of closes is a sequence   *)
(* of integers; the Series it returns is a sequence of floats.             *)
(***************************************************************************)
\* data.diff(): the first entry has no predecessor and is NaN
diff(series) ==
    [k \in 1..Len(series) |->
        IF k = 1 THEN NaN ELSE Float(series[k] - series[k - 1])]

\* a variant of gains that keeps an undefined difference undefined
gains_keep_nan(delta) ==
    [k \in 1..Len(delta) |->
        IF delta[k].kind = "nan" THEN NaN
        ELSE IF FGt(delta[k], Float(0)) THEN delta[k] ELSE Float(0)]

\* delta.where(delta > 0, 0): NaN > 0 is False, so NaN is replaced by 0 too
gains(delta) ==
    [k \in 1..Len(delta) |-> IF FGt(delta[k], Float(0)) THEN delta[k] ELSE Float(0)]

\* -delta.where(delta < 0, 0)
losses(delta) ==
    [k \in 1..Len(delta) |->
        FNeg(IF FLt(delta[k], Float(0)) THEN delta[k] ELSE Float(0))]

RECURSIVE SumFloats(_, _, _)
SumFloats(series, lo, hi) ==
    IF lo > hi THEN Float(0) ELSE FAdd(SumFloats(series, lo, hi - 1), series[hi])

\* series.rolling(window=window).mean(): min_periods defaults to the window,
\* so entries with fewer than `window` observations are NaN
rolling_mean(series, window) ==
    [k \in 1..Len(series) |->
        IF k < window THEN NaN
        ELSE FDiv(SumFloats(series, k - window + 1, k), Float(window))]

calculate_rsi(closes, window) ==
    LET delta == diff(closes)
        gain  == rolling_mean(gains(delta), window)
        loss  == rolling_mean(losses(delta), window)
        rs    == [k \in 1..Len(closes) |-> FDiv(gain[k], loss[k])]
    IN  [k \in 1..Len(closes) |->
            FSub(Float(100), FDiv(Float(100), FAdd(Float(1), rs[k])))]

\* the default of the `periods` parameter (line 58)
DefaultPeriods == 14

(***************************************************************************)
(* The event list (lines 11-42) and the horizon derivation loop (45-55).   *)
(***************************************************************************)
SourceEvents == <<
    [year |-> 2018,
     event |-> "Steel and Aluminum Tariffs (25% on Steel, 10% on Aluminum)",
     date |-> <<2018, 3, 1>>,
     country |-> "Multiple Countries (Global, with some exemptions later)"],
    [year |-> 2018,
     event |-> "China Tariffs Phase 1 ($34 Billion on Goods)",
     date |-> <<2018, 7, 6>>,
     country |-> "China"],
    [year |-> 2018,
     event |-> "China Tariffs Phase 2 ($200 Billion Additional Goods)",
     date |-> <<2018, 9, 17>>,
     country |-> "China"],
    [year |-> 2019,
     event |-> "China Tariff Increase (25% on $200 Billion Goods)",
     date |-> <<2019, 5, 10>>,
     country |-> "China"],
    [year |-> 2025,
     event |-> "Trump 2025 Proposed Tariffs (Potential 10-20% on Imports)",
     date |-> <<2025, 3, 3>>,
     country |-> "Canada, Mexico, and China"] >>

\* a variant of after_days that counts the announcement day as day one
after_days_inclusive(date, days) == Strftime(date + days - 1)

\* (date + timedelta(days=days)).strftime("%Y-%m-%d")
after_days(date, days) == Strftime(date + days)

\* the body of the loop of lines 45-55 for one event
derive_horizons(event) ==
    LET date == Strptime(event.date)
    IN  [year |-> event.year, event |-> event.event, date |-> event.date,
         country |-> event.country,
         announcement_date  |-> event.date,
         one_week_after     |-> after_days(date, 7),
         one_month_after    |-> after_days(date, 30),
         three_months_after |-> after_days(date, 90),
         six_months_after   |-> after_days(date, 180),
         end_of_year        |-> <<event.year, 12, 31>>]

(***************************************************************************)
(* DataFrames and the two providers behind web.DataReader.  Only the       *)
(* columns the program reads (Close, Volume) are carried.                  *)
(***************************************************************************)
\* pd.DataFrame()
EmptyDataFrame == [columns |-> <<>>, index |-> <<>>, rows |-> <<>>]

\* df.empty
empty(frame) == Len(frame.index) = 0 \/ Len(frame.columns) = 0

RECURSIVE sorted_positions(_, _)
\* the positions of `index` in ascending order of date, `left` still to place
sorted_positions(index, left) ==
    IF left = {} THEN <<>>
    ELSE LET k == CHOOSE a \in left :
                    \A b \in left : index[a] < index[b]
                                    \/ (index[a] = index[b] /\ a <= b)
         IN  <<k>> \o sorted_positions(index, left \ {k})

\* a variant of sort_index that leaves the frame in the provider's order
sort_index_skipped(frame) == frame

\* df.sort_index()
sort_index(frame) ==
    LET order == sorted_positions(frame.index, DOMAIN frame.index)
    IN  [columns |-> frame.columns,
         index   |-> [k \in 1..Len(order) |-> frame.index[order[k]]],
         rows    |-> [k \in 1..Len(order) |-> frame.rows[order[k]]]]

Raise == [kind |-> "raise", frame |-> EmptyDataFrame]
Reply(frame) == [kind |-> "frame", frame |-> frame]

\* what one provider call did, as the log of the attempt records it
Did(reply) == IF reply.kind = "raise" THEN "raise"
              ELSE IF empty(reply.frame) THEN "empty" ELSE "data"

\* a variant of try_body in which an attempt that found no data raises, so
\* that the except clause retries it
try_body_retry_empty(stooq, yahoo) ==
    IF stooq.kind = "raise"
    THEN [raised |-> TRUE, value |-> EmptyDataFrame,
          log |-> [stooq |-> "raise", yahoo |-> "not_called"]]
    ELSE IF ~empty(stooq.frame)
    THEN [raised |-> FALSE, value |-> sort_index(stooq.frame),
          log |-> [stooq |-> "data", yahoo |-> "not_called"]]
    ELSE IF yahoo.kind = "raise" \/ empty(yahoo.frame)
    THEN [raised |-> TRUE, value |-> EmptyDataFrame,
          log |-> [stooq |-> "empty", yahoo |-> Did(yahoo)]]
    ELSE [raised |-> FALSE, value |-> sort_index(yahoo.frame),
          log |-> [stooq |-> "empty", yahoo |-> "data"]]

\* the try block of one attempt (lines 76-100): `raised` when a DataReader
\* call raised, else the value returned
try_body(stooq, yahoo) ==
    IF stooq.kind = "raise"
    THEN [raised |-> TRUE, value |-> EmptyDataFrame,
          log |-> [stooq |-> "raise", yahoo |-> "not_called"]]
    ELSE IF ~empty(stooq.frame)
    THEN [raised |-> FALSE, value |-> sort_index(stooq.frame),
          log |-> [stooq |-> "data", yahoo |-> "not_called"]]
    ELSE IF yahoo.kind = "raise"
    THEN [raised |-> TRUE, value |-> EmptyDataFrame,
          log |-> [stooq |-> "empty", yahoo |-> "raise"]]
    ELSE IF ~empty(yahoo.frame)
    THEN [raised |-> FALSE, value |-> sort_index(yahoo.frame),
          log |-> [stooq |-> "empty", yahoo |-> "data"]]
    ELSE [raised |-> FALSE, value |-> EmptyDataFrame,
          log |-> [stooq |-> "empty", yahoo |-> "empty"]]

RECURSIVE Pow2(_)
Pow2(n) == IF n = 0 THEN 1 ELSE 2 * Pow2(n - 1)

\* a variant of wait_time that counts attempts from one: 2 ** (attempt + 1)
wait_time_from_one(n) == Pow2(n + 1)

\* wait_time = 2 ** attempt (line 105)
wait_time(n) == Pow2(n)

\* the default of the `attempts` parameter (line 70)
DefaultAttempts == 3

(***************************************************************************)
(* analyze_event (lines 113-191) and create_empty_result (194-215).        *)
(* A result row is a function from field name to value.                    *)
(***************************************************************************)
Periods == <<"one_week_after", "one_month_after", "three_months_after",
             "six_months_after", "end_of_year">>
Metrics == <<"price_change_%", "volume_change_%", "rsi">>

\* f"{period}_{metric}"
key(period, metric) == period \o "_" \o metric

IdFields == {"year", "event", "date"}
MetricFields ==
    {key(Periods[a], Metrics[b]) : a \in DOMAIN Periods, b \in DOMAIN Metrics}

\* a variant of create_empty_result whose period list lacks end_of_year
create_empty_result_short(event) ==
    [f \in IdFields \cup
           {key(Periods[a], Metrics[b]) : a \in 1..4, b \in DOMAIN Metrics} |->
        IF f \in IdFields THEN event[f] ELSE None]

create_empty_result(event) ==
    [f \in IdFields \cup MetricFields |->
        IF f \in IdFields THEN event[f] ELSE None]

\* a variant of too_recent that forgets the 30 days
too_recent_today(start_date, today) == start_date > today

\* start_date > datetime.now() - timedelta(days=30)   (line 126)
too_recent(start_date, today) == start_date > today - 30

Min2(a, b) == IF a <= b THEN a ELSE b

\* lookback_start and end_date (lines 122-123), as fetch_market_data gets them
Datetime(ordinal) == [type |-> "datetime", value |-> ordinal]
Str(date) == [type |-> "str", value |-> date]
lookback_start(start_date) == Datetime(start_date - 30)
end_date(start_date, today) == Datetime(Min2(start_date + 365, today))

\* lines 78-81: a datetime argument becomes its "%Y-%m-%d" string
as_string(arg) ==
    IF arg.type = "datetime" THEN Str(Strftime(arg.value)) ELSE arg

\* col.lower() for the column names the providers use
lower(name) == CASE name = "Close"  -> "close"
                 [] name = "Volume" -> "volume"
                 [] name = "Price"  -> "price"
                 [] OTHER -> name

\* the frame after line 138
lowercased(frame) ==
    [columns |-> [k \in DOMAIN frame.columns |-> lower(frame.columns[k])],
     index |-> frame.index, rows |-> frame.rows]

has_column(frame, name) == \E k \in DOMAIN frame.columns : frame.columns[k] = name

\* df[name]: the column as a sequence of floats (a KeyError when absent)
column(frame, name) ==
    LET c == CHOOSE k \in DOMAIN frame.columns : frame.columns[k] = name
    IN  [k \in DOMAIN frame.rows |-> Float(frame.rows[k][c])]

\* the positions selected by the mask df.index >= date
at_or_after(index, date) == {k \in DOMAIN index : index[k] >= date}

\* a variant of first_at_or_after that selects strictly later bars
first_after(index, date) ==
    LET hits == {k \in DOMAIN index : index[k] > date}
    IN  IF hits = {} THEN 0 ELSE CHOOSE k \in hits : \A j \in hits : k <= j

\* the position of df.index[df.index >= date][0]; 0 when the selection is
\* empty (where [0] raises IndexError)
first_at_or_after(index, date) ==
    LET hits == at_or_after(index, date)
    IN  IF hits = {} THEN 0 ELSE CHOOSE k \in hits : \A j \in hits : k <= j

\* a variant of pct_change that guards a zero baseline
pct_change_guarded(after, before) ==
    IF before = Float(0) THEN None
    ELSE FMul(FDiv(FSub(after, before), before), Float(100))

\* ((after - before) / before) * 100   (lines 157-158)
pct_change(after, before) ==
    FMul(FDiv(FSub(after, before), before), Float(100))

\* calc_metrics (lines 150-165): found = FALSE stands for `return None`
calc_metrics(frame, rsi, pre_tariff_price, pre_tariff_volume, after_date) ==
    LET k == first_at_or_after(frame.index, after_date)
    IN  IF k = 0
        THEN [found |-> FALSE, price |-> None, volume |-> None, rsi |-> None]
        ELSE [found  |-> TRUE,
              price  |-> pct_change(column(frame, "close")[k], pre_tariff_price),
              volume |-> pct_change(column(frame, "volume")[k], pre_tariff_volume),
              rsi    |-> rsi[k]]

NoLocals == [closest_start |-> 0, pre_tariff_price |-> None,
             pre_tariff_volume |-> None]

\* the exception handler of lines 189-191
on_exception(event) ==
    [row |-> create_empty_result(event), outcome |-> "error", locals |-> NoLocals]

\* lines 173-179: the three entries one period adds to `metrics`
period_entries(period, m) ==
    (key(period, "price_change_%")  :> (IF m.found THEN m.price ELSE None))
    @@ (key(period, "volume_change_%") :> (IF m.found THEN m.volume ELSE None))
    @@ (key(period, "rsi")             :> (IF m.found THEN m.rsi ELSE None))

RECURSIVE metrics_upto(_, _, _, _, _, _)
\* lines 168-179: `metrics` after the first n periods of the loop
metrics_upto(n, event, frame, rsi, pre_tariff_price, pre_tariff_volume) ==
    IF n = 0 THEN <<>>
    ELSE period_entries(Periods[n],
                        calc_metrics(frame, rsi, pre_tariff_price, pre_tariff_volume,
                                     Strptime(event[Periods[n]])))
         @@ metrics_upto(n - 1, event, frame, rsi, pre_tariff_price,
                         pre_tariff_volume)

\* lines 182-187: the row returned
result_row(event, frame, rsi, pre_tariff_price, pre_tariff_volume) ==
    [f \in IdFields |-> event[f]]
    @@ metrics_upto(Len(Periods), event, frame, rsi, pre_tariff_price,
                    pre_tariff_volume)

\* lines 133-191: analyze_event from the value fetch_market_data returned
analyze_frame(event, fetched) ==
    IF empty(fetched)
    THEN [row |-> create_empty_result(event), outcome |-> "no_data",
          locals |-> NoLocals]
    ELSE LET frame == lowercased(fetched)
             start_date == Strptime(event.date)
         IN  IF ~has_column(frame, "close") THEN on_exception(event)
             ELSE LET rsi == calculate_rsi(
                                [k \in DOMAIN frame.rows |->
                                    frame.rows[k][CHOOSE c \in DOMAIN frame.columns :
                                                     frame.columns[c] = "close"]],
                                DefaultPeriods)
                      k == first_at_or_after(frame.index, start_date)
                  IN  IF k = 0 THEN on_exception(event)
                      ELSE IF ~has_column(frame, "volume") THEN on_exception(event)
                      ELSE LET price  == column(frame, "close")[k]
                               volume == column(frame, "volume")[k]
                           IN  [row |-> result_row(event, frame, rsi, price, volume),
                                outcome |-> "ok",
                                locals |-> [closest_start |-> frame.index[k],
                                            pre_tariff_price |-> price,
                                            pre_tariff_volume |-> volume]]

\* a variant of collect that puts the newest row first
collect_front(rows, row) == <<row>> \o rows

\* the list comprehension of line 219 adds each row at the end
collect(rows, row) == Append(rows, row)

\* what to_sql stores: None and NaN both become NULL
sql_value(v) == IF v \in {None, NaN} THEN [kind |-> "NULL", num |-> 0, den |-> 1] ELSE v

\* what to_csv writes: None and NaN both become the empty field
csv_value(v) == IF v \in {None, NaN} THEN [kind |-> "", num |-> 0, den |-> 1] ELSE v

to_sql(rows) ==
    [k \in DOMAIN rows |->
        [f \in DOMAIN rows[k] |->
            IF f \in IdFields THEN rows[k][f] ELSE sql_value(rows[k][f])]]

to_csv(rows) ==
    [k \in DOMAIN rows |->
        [f \in DOMAIN rows[k] |->
            IF f \in IdFields THEN rows[k][f] ELSE csv_value(rows[k][f])]]

(***************************************************************************)
(* The environment: what the providers may answer, the day the program     *)
(* runs on, and the event lists it is run over.                            *)
(***************************************************************************)
MaxBars == 2         \* most bars in a provider's answer (the long answer apart)
MaxAttempts == 3     \* largest `attempts` fetch_market_data is called with
MaxCloses == 4       \* longest series calculate_rsi is applied to
MaxPeriods == 3      \* largest `periods` calculate_rsi is applied with
HorizonDays == 800   \* announcement dates tried: this many days from 2018-01-01

\* (close, volume) of a bar
BarValues == {<<100, 50>>, <<110, 40>>, <<0, 50>>, <<100, 0>>}

\* days of the bars, counted from the first day of the requested range (the
\* announcement is day 30 of it)
DayOffsets == {29, 32, 39, 160}

RECURSIVE ascending(_)
ascending(days) ==
    IF days = {} THEN <<>>
    ELSE LET d == CHOOSE x \in days : \A y \in days : x <= y
         IN  <<d>> \o ascending(days \ {d})

reversed(seq) == [k \in 1..Len(seq) |-> seq[Len(seq) + 1 - k]]

\* the frames a provider may return for the range [first, last]: any bars on
\* at most MaxBars distinct days of the range, oldest or newest first
BarFrames(first, last) ==
    LET days == {first + o : o \in DayOffsets} \cap first..last
    IN  UNION { UNION { { [columns |-> <<"Close", "Volume">>,
                           index |-> order,
                           rows |-> [k \in DOMAIN order |-> value[order[k]]]]
                          : order \in {ascending(chosen), reversed(ascending(chosen))} }
                        : value \in [chosen -> BarValues] }
                : chosen \in {c \in SUBSET days : Cardinality(c) <= MaxBars} }

\* frames that lack a column the program reads
MalformedFrames(first, last) ==
    IF first + 30 > last THEN {}
    ELSE { [columns |-> <<"Price", "Volume">>, index |-> <<first + 30>>,
            rows |-> << <<100, 50>> >>],
           [columns |-> <<"Close">>, index |-> <<first + 30>>,
            rows |-> << <<100>> >>] }

\* an answer long enough for the 14-day RSI to be defined: one bar a day for
\* the 14 days up to and including the announcement, and one bar exactly a
\* week after it
LongFrames(first, last) ==
    IF first + 37 > last THEN {}
    ELSE { [columns |-> <<"Close", "Volume">>,
            index |-> [k \in 1..15 |-> IF k = 15 THEN first + 37 ELSE first + 16 + k],
            rows |-> [k \in 1..15 |->
                        <<(IF k % 5 = 0 THEN 100 - k ELSE 100 + 2 * k), 50>>]] }

ProviderReplies(first, last) ==
    {Raise} \cup {Reply(f) : f \in BarFrames(first, last)
                                   \cup MalformedFrames(first, last)
                                   \cup LongFrames(first, last)}

\* the runs: which events of the source's list are analysed, on which day
Scenarios ==
    { [picks |-> <<1>>,    today |-> <<2026, 10, 30>>],
      [picks |-> <<1>>,    today |-> <<2018, 4, 30>>],
      [picks |-> <<3>>,    today |-> <<2026, 10, 30>>],
      [picks |-> <<5>>,    today |-> <<2025, 3, 20>>],
      [picks |-> <<5, 1>>, today |-> <<2025, 3, 20>>],
      [picks |-> <<4, 5>>, today |-> <<2025, 3, 20>>],
      [picks |-> <<3, 2>>, today |-> <<2018, 10, 18>>] }

NoArg == Str(<<1, 1, 1>>)
NoSink == [writes |-> 0, rows |-> <<>>]

Idle ==
    /\ i = 0
    /\ start = NoArg /\ end = NoArg /\ attempts = 0 /\ attempt = 0
    /\ outcomes = <<>> /\ sleeps = <<>> /\ df = EmptyDataFrame
    /\ locals = NoLocals /\ trace = <<>> /\ sp500_data = <<>>
    /\ sql = NoSink /\ csv = NoSink

(***************************************************************************)
(* The main program.                                                       *)
(***************************************************************************)
Init ==
    /\ \E s \in Scenarios :
          /\ events = [k \in DOMAIN s.picks |-> SourceEvents[s.picks[k]]]
          /\ now = Strptime(s.today)
    /\ pc = "derive"
    /\ Idle
    /\ data = <<>> /\ periods = DefaultPeriods /\ rsi_out = <<>>

\* lines 45-55
DeriveHorizons ==
    /\ pc = "derive"
    /\ events' = [k \in DOMAIN events |-> derive_horizons(events[k])]
    /\ pc' = "analyze"
    /\ i' = 1
    /\ UNCHANGED <<now, start, end, attempts, attempt, outcomes, sleeps, df,
                   locals, trace, sp500_data, sql, csv, data, periods, rsi_out>>

\* analyze_event up to the recency guard and the call of fetch_market_data
\* (lines 119-131)
AnalyzeBegin ==
    /\ pc = "analyze"
    /\ i <= Len(events)
    /\ LET event == events[i]
           start_date == Strptime(event.date)
       IN  IF too_recent(start_date, now)
           THEN /\ sp500_data' = collect(sp500_data, create_empty_result(event))
                /\ trace' = Append(trace, [outcome |-> "skipped", fetch_calls |-> 0,
                                           provider_called |-> FALSE])
                /\ i' = i + 1
                /\ pc' = "analyze"
                /\ start' = NoArg /\ end' = NoArg /\ attempts' = 0
           ELSE /\ start' = lookback_start(start_date)
                /\ end' = end_date(start_date, now)
                /\ attempts' = DefaultAttempts
                /\ trace' = Append(trace, [outcome |-> "fetching", fetch_calls |-> 1,
                                           provider_called |-> FALSE])
                /\ pc' = "fetch"
                /\ UNCHANGED <<i, sp500_data>>
    /\ attempt' = 0 /\ outcomes' = <<>> /\ sleeps' = <<>>
    /\ df' = EmptyDataFrame /\ locals' = NoLocals
    /\ UNCHANGED <<events, now, sql, csv, data, periods, rsi_out>>

\* one iteration of the retry loop of fetch_market_data (lines 75-110)
FetchAttempt ==
    /\ pc = "fetch"
    /\ attempt < attempts
    /\ \E s \in {as_string(start)}, e \in {as_string(end)} :
       \E replies \in {ProviderReplies(Strptime(s.value), Strptime(e.value))} :
           /\ start' = s
           /\ end' = e
           /\ \E stooq \in replies :
              \E yahoo \in (IF Did(stooq) = "empty" THEN replies ELSE {Raise}) :
              \E r \in {try_body(stooq, yahoo)} :
                    /\ outcomes' = Append(outcomes, r.log)
                    /\ IF ~r.raised
                       THEN /\ df' = r.value
                            /\ pc' = "fetched"
                            /\ UNCHANGED <<attempt, sleeps>>
                       ELSE IF attempt < attempts - 1
                       THEN /\ sleeps' = Append(sleeps, wait_time(attempt))
                            /\ attempt' = attempt + 1
                            /\ UNCHANGED <<pc, df>>
                       ELSE /\ df' = EmptyDataFrame
                            /\ pc' = "fetched"
                            /\ UNCHANGED <<attempt, sleeps>>
    /\ trace' = IF trace = <<>> THEN trace
                ELSE [trace EXCEPT ![Len(trace)].provider_called = TRUE]
    /\ UNCHANGED <<events, now, i, attempts, locals, sp500_data, sql, csv,
                   data, periods, rsi_out>>

\* analyze_event from the return of fetch_market_data on (lines 133-191)
AnalyzeFinish ==
    /\ pc = "fetched"
    /\ i \in DOMAIN events
    /\ \E r \in {analyze_frame(events[i], df)} :
           /\ sp500_data' = collect(sp500_data, r.row)
           /\ locals' = r.locals
           /\ trace' = [trace EXCEPT ![i].outcome = r.outcome]
    /\ i' = i + 1
    /\ pc' = "analyze"
    /\ attempt' = 0 /\ outcomes' = <<>> /\ sleeps' = <<>>
    /\ UNCHANGED <<events, now, start, end, attempts, df, sql, csv, data,
                   periods, rsi_out>>

\* lines 222-227
WriteSql ==
    /\ pc = "analyze"
    /\ i > Len(events)
    /\ sql' = [writes |-> sql.writes + 1, rows |-> to_sql(sp500_data)]
    /\ pc' = "csv"
    /\ UNCHANGED <<events, now, i, start, end, attempts, attempt, outcomes,
                   sleeps, df, locals, trace, sp500_data, csv, data, periods,
                   rsi_out>>

\* line 230
WriteCsv ==
    /\ pc = "csv"
    /\ csv' = [writes |-> csv.writes + 1, rows |-> to_csv(sp500_data)]
    /\ pc' = "done"
    /\ UNCHANGED <<events, now, i, start, end, attempts, attempt, outcomes,
                   sleeps, df, locals, trace, sp500_data, sql, data, periods,
                   rsi_out>>

Next ==
    \/ DeriveHorizons
    \/ AnalyzeBegin
    \/ FetchAttempt
    \/ AnalyzeFinish
    \/ WriteSql
    \/ WriteCsv

Spec == Init /\ [][Next]_vars

(***************************************************************************)
(* fetch_market_data called on its own, with any number of attempts.       *)
(***************************************************************************)
InitFetch ==
    /\ \E s \in {x \in Scenarios : Len(x.picks) = 1} :
          /\ now = Strptime(s.today)
          /\ start = lookback_start(Strptime(SourceEvents[s.picks[1]].date))
          /\ end = end_date(Strptime(SourceEvents[s.picks[1]].date), now)
    /\ attempts \in 0..MaxAttempts
    /\ events = <<>>
    /\ pc = "fetch"
    /\ i = 0 /\ attempt = 0 /\ outcomes = <<>> /\ sleeps = <<>>
    /\ df = EmptyDataFrame /\ locals = NoLocals /\ trace = <<>>
    /\ sp500_data = <<>> /\ sql = NoSink /\ csv = NoSink
    /\ data = <<>> /\ periods = DefaultPeriods /\ rsi_out = <<>>

\* range(attempts) is exhausted without a return (only when attempts = 0):
\* the function falls off its end and returns None
FetchFallThrough ==
    /\ pc = "fetch"
    /\ attempt >= attempts
    /\ df' = None
    /\ pc' = "fetched"
    /\ UNCHANGED <<events, now, i, start, end, attempts, attempt, outcomes,
                   sleeps, locals, trace, sp500_data, sql, csv, data, periods,
                   rsi_out>>

NextFetch ==
    \/ FetchAttempt
    \/ FetchFallThrough

SpecFetch == InitFetch /\ [][NextFetch]_vars

(***************************************************************************)
(* calculate_rsi applied to any short series of closes.                    *)
(***************************************************************************)
CloseValues == {10, 11, 13}

RECURSIVE SeqsUpTo(_, _)
SeqsUpTo(values, n) ==
    IF n = 0 THEN {<<>>}
    ELSE LET shorter == SeqsUpTo(values, n - 1)
         IN  shorter \cup {Append(q, v) : q \in shorter, v \in values}

InitRsi ==
    /\ data \in SeqsUpTo(CloseValues, MaxCloses)
    /\ periods \in 1..MaxPeriods
    /\ rsi_out = <<>>
    /\ pc = "rsi"
    /\ events = <<>> /\ now = 0
    /\ Idle

CalculateRsi ==
    /\ pc = "rsi"
    /\ rsi_out' = calculate_rsi(data, periods)
    /\ pc' = "rsi_done"
    /\ UNCHANGED <<events, now, i, start, end, attempts, attempt, outcomes,
                   sleeps, df, locals, trace, sp500_data, sql, csv, data,
                   periods>>

NextRsi == CalculateRsi

SpecRsi == InitRsi /\ [][NextRsi]_vars

(***************************************************************************)
(* The horizon derivation loop applied to an event announced on any day.   *)
(***************************************************************************)
InitHorizons ==
    /\ \E o \in 0..HorizonDays :
          LET date == Strftime(Strptime(<<2018, 1, 1>>) + o)
          IN  events = << [year |-> date[1], event |-> "Announcement",
                           date |-> date, country |-> "Any"] >>
    /\ now = Strptime(<<2026, 10, 30>>)
    /\ pc = "derive"
    /\ Idle
    /\ data = <<>> /\ periods = DefaultPeriods /\ rsi_out = <<>>

NextHorizons == DeriveHorizons

SpecHorizons == InitHorizons /\ [][NextHorizons]_vars

(***************************************************************************)
(* Properties.                                                             *)
(***************************************************************************)
\* the 15 metric field names, spelled out
ExpectedMetricFields ==
    { "one_week_after_price_change_%", "one_week_after_volume_change_%",
      "one_week_after_rsi",
      "one_month_after_price_change_%", "one_month_after_volume_change_%",
      "one_month_after_rsi",
      "three_months_after_price_change_%", "three_months_after_volume_change_%",
      "three_months_after_rsi",
      "six_months_after_price_change_%", "six_months_after_volume_change_%",
      "six_months_after_rsi",
      "end_of_year_price_change_%", "end_of_year_volume_change_%",
      "end_of_year_rsi" }

IsNumeric(v) == v.kind \in {"num", "inf", "-inf", "nan"}
AllNull(row) == \A f \in ExpectedMetricFields : row[f] = None

\* the event whose evaluation, fetch included, has just finished: df and
\* locals are still those of that evaluation
LastAnalysed ==
    /\ pc \in {"analyze", "csv", "done"}
    /\ i > 1
    /\ trace[i - 1].outcome # "skipped"

LastEvent == events[i - 1]
LastRow == sp500_data[i - 1]
WellFormed(frame) ==
    /\ ~empty(frame)
    /\ frame.columns = <<"Close", "Volume">>

\* the positions of the bars dated on or after `date`, and the earliest of them
Later(frame, date) == {k \in DOMAIN frame.index : frame.index[k] >= date}
Earliest(frame, date) ==
    CHOOSE k \in Later(frame, date) :
        \A j \in Later(frame, date) : frame.index[k] <= frame.index[j]

\* C1: analyze_event returns exactly one row per evaluated event, and every
\* row, computed or placeholder, carries year, event, date and the same 15
\* metric fields, each numeric or None.
C1_SchemaComplete ==
    /\ Len(sp500_data) = (IF i = 0 THEN 0 ELSE i - 1)
    /\ Len(sp500_data) = Len(SelectSeq(trace, LAMBDA t : t.outcome # "fetching"))
    /\ \A k \in DOMAIN sp500_data :
          /\ DOMAIN sp500_data[k] = {"year", "event", "date"} \cup ExpectedMetricFields
          /\ Cardinality(DOMAIN sp500_data[k] \ {"year", "event", "date"}) = 15
          /\ sp500_data[k]["year"] = events[k].year
          /\ sp500_data[k]["event"] = events[k].event
          /\ sp500_data[k]["date"] = events[k].date
          /\ \A f \in ExpectedMetricFields :
                sp500_data[k][f] = None \/ IsNumeric(sp500_data[k][f])

\* a finished run with a placeholder row (empty fetch) and a computed row
\* holding both numbers and None
C1_Witness ==
    /\ pc = "done"
    /\ \E j, k \in DOMAIN trace :
          /\ trace[j].outcome = "no_data" /\ AllNull(sp500_data[j])
          /\ trace[k].outcome = "ok"
          /\ \E f, g \in ExpectedMetricFields :
                sp500_data[k][f] = None /\ sp500_data[k][g].kind = "num"

\* C2: the collection holds one row per evaluated event in event order,
\* whatever happened to each event; the table and the file are each written
\* once, only after every event has its row, a finished run has a row for
\* every event, and an unfinished run is always at a point from which the
\* next event, attempt or write can proceed.
C2_OneRowPerEventInOrder ==
    /\ Len(sp500_data) <= Len(events)
    /\ \A k \in DOMAIN sp500_data :
          /\ sp500_data[k]["year"] = events[k].year
          /\ sp500_data[k]["event"] = events[k].event
          /\ sp500_data[k]["date"] = events[k].date
    /\ sql.writes <= 1 /\ csv.writes <= 1
    /\ (sql.writes > 0 \/ csv.writes > 0) =>
          /\ Len(sp500_data) = Len(events)
          /\ Len(sql.rows) = Len(events)
          /\ \A k \in DOMAIN events : sql.rows[k]["date"] = events[k].date
    /\ pc = "done" =>
          /\ sql.writes = 1 /\ csv.writes = 1
          /\ Len(csv.rows) = Len(events)
          /\ \A k \in DOMAIN events : csv.rows[k]["date"] = events[k].date
          /\ Len(trace) = Len(events)
          /\ \A k \in DOMAIN trace :
                trace[k].outcome \in {"skipped", "no_data", "error", "ok"}
    /\ pc \in {"derive", "analyze", "fetch", "fetched", "csv", "done"}
    /\ pc = "analyze" => i \in 1..(Len(events) + 1)
    /\ pc = "fetch" => i \in DOMAIN events /\ attempt < attempts
    /\ pc = "fetched" => i \in DOMAIN events

\* a finished run over two events in which the first evaluation ended in the
\* exception handler and the second was still computed
C2_Witness ==
    /\ pc = "done"
    /\ Len(events) = 2
    /\ trace[1].outcome = "error"
    /\ trace[2].outcome = "ok"
    /\ ~AllNull(sp500_data[2])

\* C5: an event dated after now - 30 days gets the placeholder with no call
\* of fetch_market_data and no provider call; every other event gets exactly
\* one call of fetch_market_data.
C5_RecencyGuard ==
    \A k \in DOMAIN trace :
        IF Strptime(events[k].date) > now - 30
        THEN /\ trace[k] = [outcome |-> "skipped", fetch_calls |-> 0,
                            provider_called |-> FALSE]
             /\ AllNull(sp500_data[k])
        ELSE /\ trace[k].outcome # "skipped"
             /\ trace[k].fetch_calls = 1

\* a finished run in which one event was too recent (announced 17 days
\* before the run) and another was fetched and computed
C5_Witness ==
    /\ pc = "done"
    /\ \E j, k \in DOMAIN trace :
          /\ trace[j].outcome = "skipped"
          /\ Strptime(events[j].date) <= now
          /\ trace[k].outcome = "ok" /\ trace[k].provider_called

\* C6: for a non-empty fetched series the baseline is the earliest bar dated
\* on or after the announcement, and its close and volume are the baseline
\* price and volume; with no such bar the row is the placeholder.
C6_BaselineSelection ==
    (LastAnalysed /\ WellFormed(df)) =>
        LET date == Strptime(LastEvent.date)
        IN  IF Later(df, date) = {}
            THEN AllNull(LastRow) /\ trace[i - 1].outcome = "error"
            ELSE LET k == Earliest(df, date)
                 IN  /\ trace[i - 1].outcome = "ok"
                     /\ locals.closest_start = df.index[k]
                     /\ locals.pre_tariff_price = Float(df.rows[k][1])
                     /\ locals.pre_tariff_volume = Float(df.rows[k][2])

\* no bar on the announcement day, bars two and nine days after it: the
\* baseline is the bar two days after
C6_Witness ==
    /\ LastAnalysed /\ WellFormed(df)
    /\ LET date == Strptime(LastEvent.date)
       IN  /\ \A k \in DOMAIN df.index : df.index[k] # date
           /\ Cardinality(Later(df, date)) >= 2
           /\ locals.closest_start = date + 2
           /\ locals.pre_tariff_price = Float(110)

\* C7: on a computed row a period's three metrics are all None exactly when
\* no bar is dated on or after the period's date; otherwise they are computed
\* from the earliest such bar, whatever the other periods are.
C7_HorizonBeyondData ==
    (LastAnalysed /\ trace[i - 1].outcome = "ok") =>
        \A a \in DOMAIN Periods :
            LET target == Strptime(LastEvent[Periods[a]])
                price  == LastRow[Periods[a] \o "_price_change_%"]
                volume == LastRow[Periods[a] \o "_volume_change_%"]
                rsi    == LastRow[Periods[a] \o "_rsi"]
            IN  IF Later(df, target) = {}
                THEN price = None /\ volume = None /\ rsi = None
                ELSE LET k == Earliest(df, target)
                     IN  /\ price # None /\ volume # None /\ rsi # None
                         /\ price = FMul(FDiv(FSub(Float(df.rows[k][1]),
                                                   locals.pre_tariff_price),
                                              locals.pre_tariff_price), Float(100))
                         /\ volume = FMul(FDiv(FSub(Float(df.rows[k][2]),
                                                    locals.pre_tariff_volume),
                                               locals.pre_tariff_volume), Float(100))
                         /\ rsi = calculate_rsi([j \in DOMAIN df.rows |-> df.rows[j][1]],
                                                14)[k]

\* the series ends between the year end and the six-month date: six months
\* is None while one week and the later-listed end of year are numeric
C7_Witness ==
    /\ LastAnalysed /\ trace[i - 1].outcome = "ok"
    /\ LastRow["six_months_after_price_change_%"] = None
    /\ LastRow["six_months_after_rsi"] = None
    /\ LastRow["one_week_after_price_change_%"].kind = "num"
    /\ LastRow["one_week_after_price_change_%"] # Float(0)
    /\ LastRow["end_of_year_price_change_%"].kind = "num"

\* C10 as stated: a baseline bar with a zero close or a zero volume makes
\* the event's row the placeholder (all 15 metrics None).
C10_ZeroBaselineGivesPlaceholder ==
    (LastAnalysed /\ WellFormed(df)
       /\ Later(df, Strptime(LastEvent.date)) # {}) =>
        LET k == Earliest(df, Strptime(LastEvent.date))
        IN  (df.rows[k][1] = 0 \/ df.rows[k][2] = 0) => AllNull(LastRow)

\* C10 amended: a zero baseline raises nothing.  The evaluation ends on the
\* normal path, and on every period that has a bar the change relative to
\* the zero baseline is inf (nan when the period's own value is zero too),
\* not None; periods without a bar are None.
C10_ZeroBaselineGivesNonFinite ==
    (LastAnalysed /\ WellFormed(df)
       /\ Later(df, Strptime(LastEvent.date)) # {}) =>
        LET k == Earliest(df, Strptime(LastEvent.date))
        IN  /\ (df.rows[k][1] = 0 \/ df.rows[k][2] = 0) =>
                  trace[i - 1].outcome = "ok"
            /\ \A a \in DOMAIN Periods :
                  LET target == Strptime(LastEvent[Periods[a]])
                      price  == LastRow[Periods[a] \o "_price_change_%"]
                      volume == LastRow[Periods[a] \o "_volume_change_%"]
                  IN  IF Later(df, target) = {}
                      THEN (df.rows[k][1] = 0 => price = None)
                           /\ (df.rows[k][2] = 0 => volume = None)
                      ELSE LET h == Earliest(df, target)
                           IN  /\ df.rows[k][1] = 0 =>
                                     price = (IF df.rows[h][1] = 0 THEN NaN ELSE PosInf)
                               /\ df.rows[k][2] = 0 =>
                                     volume = (IF df.rows[h][2] = 0 THEN NaN ELSE PosInf)

\* a computed row whose baseline close is zero: the one-week price change is
\* inf while the volume change is an ordinary number
C10_Witness ==
    /\ LastAnalysed /\ trace[i - 1].outcome = "ok"
    /\ locals.pre_tariff_price = Float(0)
    /\ LastRow["one_week_after_price_change_%"] = PosInf
    /\ LastRow["one_week_after_volume_change_%"].kind = "num"

\* one attempt's log: a DataReader call raised / both providers answered
\* with an empty series
Raised(log) == log.stooq = "raise" \/ log.yahoo = "raise"
BothEmpty(log) == log.stooq = "empty" /\ log.yahoo = "empty"
Returned == pc = "fetched" /\ attempts >= 1
LastAttempt == outcomes[Len(outcomes)]

\* C3 as stated: an attempt in which neither provider yields a non-empty
\* series is retried until attempts run out, so an empty Series is returned
\* only after `attempts` attempts.
C3_EmptyAttemptIsRetried ==
    (Returned /\ (Raised(LastAttempt) \/ BothEmpty(LastAttempt))) =>
        Len(outcomes) = attempts

\* C3 amended: only an attempt in which a DataReader call raised is retried,
\* up to `attempts` attempts; an attempt in which both providers return an
\* empty series without raising is not retried, the empty DataFrame is
\* returned at once.
C3_OnlyRaisedAttemptIsRetried ==
    attempts >= 1 =>
        /\ \A k \in 1..(Len(outcomes) - 1) : Raised(outcomes[k])
        /\ pc = "fetch" =>
              /\ \A k \in DOMAIN outcomes : Raised(outcomes[k])
              /\ Len(outcomes) = attempt
              /\ attempt < attempts
        /\ pc = "fetched" =>
              /\ Len(outcomes) = attempt + 1
              /\ IF Raised(LastAttempt)
                 THEN Len(outcomes) = attempts /\ df = EmptyDataFrame
                 ELSE IF BothEmpty(LastAttempt)
                 THEN df = EmptyDataFrame
                 ELSE ~empty(df)

\* both providers answer empty on the first of three attempts: the empty
\* DataFrame is returned after that single attempt, without a sleep
C3_Witness ==
    /\ Returned /\ attempts = 3
    /\ outcomes = << [stooq |-> "empty", yahoo |-> "empty"] >>
    /\ df = EmptyDataFrame
    /\ sleeps = <<>>

\* C4 as stated: when both providers fail on every attempt, the empty Series
\* is returned after exactly `attempts` attempts, each consulting the primary
\* and then the secondary provider, with sleeps of 1, 2, 4, ... seconds
\* between attempts and none after the last.
C4_ExhaustionAfterAttemptPairs ==
    (Returned /\ \A k \in DOMAIN outcomes :
                    Raised(outcomes[k]) \/ BothEmpty(outcomes[k])) =>
        /\ df = EmptyDataFrame
        /\ Len(outcomes) = attempts
        /\ \A k \in DOMAIN outcomes : outcomes[k].yahoo # "not_called"
        /\ sleeps = SubSeq(<<1, 2, 4, 8, 16, 32>>, 1, attempts - 1)

\* C4 amended: when a DataReader call raises on every attempt, the empty
\* DataFrame is returned after exactly `attempts` attempts, with sleeps of
\* 1, 2, 4, ... seconds after every attempt but the last; within an attempt
\* the secondary provider is consulted only when the primary returned an
\* empty series without raising.
C4_ExhaustionAfterRaisedAttempts ==
    /\ \A k \in DOMAIN outcomes :
          outcomes[k].yahoo # "not_called" <=> outcomes[k].stooq = "empty"
    /\ (Returned /\ \A k \in DOMAIN outcomes : Raised(outcomes[k])) =>
          /\ df = EmptyDataFrame
          /\ Len(outcomes) = attempts
          /\ sleeps = SubSeq(<<1, 2, 4, 8, 16, 32>>, 1, attempts - 1)

\* three attempts that all raised, in one of them the secondary provider
\* after an empty primary: two sleeps, of 1 and 2 seconds
C4_Witness ==
    /\ Returned /\ attempts = 3 /\ Len(outcomes) = 3
    /\ \A k \in DOMAIN outcomes : Raised(outcomes[k])
    /\ \E k \in DOMAIN outcomes : outcomes[k].stooq = "empty"
    /\ \E k \in DOMAIN outcomes : outcomes[k].yahoo = "not_called"
    /\ sleeps = <<1, 2>>
    /\ df = EmptyDataFrame

ValidDate(date) ==
    /\ date[2] \in 1..12
    /\ date[3] \in 1..(IF date[2] = 2
                       THEN (IF date[1] % 4 = 0 /\ (date[1] % 100 # 0 \/ date[1] % 400 = 0)
                             THEN 29 ELSE 28)
                       ELSE IF date[2] \in {4, 6, 9, 11} THEN 30 ELSE 31)

HorizonOffsets(e) ==
    /\ e.announcement_date = e.date
    /\ \A f \in {"one_week_after", "one_month_after", "three_months_after",
                 "six_months_after"} : ValidDate(e[f])
    /\ Strptime(e.one_week_after) = Strptime(e.date) + 7
    /\ Strptime(e.one_month_after) = Strptime(e.date) + 30
    /\ Strptime(e.three_months_after) = Strptime(e.date) + 90
    /\ Strptime(e.six_months_after) = Strptime(e.date) + 180
    /\ e.end_of_year = <<e.year, 12, 31>>

\* C8 as stated: the horizons are +7, +30, +90, +180 days and Dec 31 of the
\* year, and for 2018-03-01 they are 2018-03-08, 2018-03-31, 2018-05-30,
\* 2018-08-27 and 2018-12-31.
C8_HorizonsWithAugust27 ==
    pc # "derive" =>
        \A k \in DOMAIN events :
            /\ HorizonOffsets(events[k])
            /\ (events[k].date = <<2018, 3, 1>> /\ events[k].year = 2018) =>
                  /\ events[k].one_week_after = <<2018, 3, 8>>
                  /\ events[k].one_month_after = <<2018, 3, 31>>
                  /\ events[k].three_months_after = <<2018, 5, 30>>
                  /\ events[k].six_months_after = <<2018, 8, 27>>
                  /\ events[k].end_of_year = <<2018, 12, 31>>

\* C8 amended: as stated, except that six months after 2018-03-01 is
\* 2018-08-28.
C8_HorizonsWithAugust28 ==
    pc # "derive" =>
        \A k \in DOMAIN events :
            /\ HorizonOffsets(events[k])
            /\ (events[k].date = <<2018, 3, 1>> /\ events[k].year = 2018) =>
                  /\ events[k].one_week_after = <<2018, 3, 8>>
                  /\ events[k].one_month_after = <<2018, 3, 31>>
                  /\ events[k].three_months_after = <<2018, 5, 30>>
                  /\ events[k].six_months_after = <<2018, 8, 28>>
                  /\ events[k].end_of_year = <<2018, 12, 31>>

\* the horizons of the event announced on 2018-03-01 have been derived
C8_Witness ==
    /\ pc = "analyze"
    /\ events[1].date = <<2018, 3, 1>>
    /\ events[1].six_months_after = <<2018, 8, 28>>
    /\ events[1].three_months_after = <<2018, 5, 30>>

\* C9 as stated: the result has the length of the input and its first
\* `periods` entries are undefined.
C9_FirstPeriodsUndefined ==
    pc = "rsi_done" =>
        /\ Len(rsi_out) = Len(data)
        /\ \A k \in DOMAIN rsi_out : k <= periods => rsi_out[k] = NaN

\* C9 amended: the result has the length of the input and its first
\* periods - 1 entries are undefined; the entry after them (index
\* periods - 1 counting from 0) is undefined only when the first `periods`
\* closes are all equal.
C9_FirstPeriodsMinusOneUndefined ==
    pc = "rsi_done" =>
        /\ Len(rsi_out) = Len(data)
        /\ \A k \in DOMAIN rsi_out : k < periods => rsi_out[k] = NaN
        /\ Len(data) >= periods =>
              (rsi_out[periods] = NaN <=> \A j \in 1..periods : data[j] = data[1])

\* periods = 2 and a rise from the first close to the second: the second
\* entry is 100
C9_Witness ==
    /\ pc = "rsi_done"
    /\ periods = 2
    /\ Len(data) = 3
    /\ data[2] > data[1]
    /\ rsi_out[1] = NaN
    /\ rsi_out[2] = Float(100)

====
